---- MODULE Spec2Model ----
(***************************************************************************)
(* A model of app.py, the Charlottesville housing dashboard.               *)
(*                                                                         *)
(* The program is a Streamlit script: the page load and every widget       *)
(* interaction run the whole script top to bottom.  The state is the three *)
(* CSV files on disk, the caches of load_all_data and process_sales_data,   *)
(* the widgets (the address text input, the result selectbox) and what the *)
(* last run rendered.                                                      *)
(* Each action is one run of the script.  An unhandled exception ends the  *)
(* run where it is raised: what comes before it stays rendered, what comes *)
(* after it is not computed.                                               *)
(***************************************************************************)
EXTENDS Integers, Sequences, FiniteSets, TLC

VARIABLES
    files,        \* the CSV files on disk: which are readable, and their rows
    cache,        \* st.cache_data entry of load_all_data(): <<>> or <<value>>
    sales_cache,  \* st.cache_data entries of process_sales_data(): argument and value
    widgets,      \* session state of the text input and the selectbox
    explicit,     \* has the user picked a value in the selectbox now shown
    numpy_build,  \* the numpy build, which decides how quicksort orders equal keys
    out,          \* what the last run of the script rendered
    up_to_date    \* has the script run since the files on disk last changed

vars == <<files, cache, sales_cache, widgets, explicit, numpy_build, out, up_to_date>>

-----------------------------------------------------------------------------
(* Bounds of the model.                                                    *)

MaxSales == 2      \* rows of the sales table
MaxAssess == 3     \* rows of the assessment table
MaxParcels == 3    \* rows of the parcel table, owner addresses varied
MaxOwned == 5      \* rows of the parcel table, owner names varied
MaxYearly == 3     \* rows of the sales table, sale years varied
MaxExtra == 2      \* rows of the parcel table next to those of ten owners

-----------------------------------------------------------------------------
(* Floating-point values: NaN, or an exact rational n/d in lowest terms.   *)

RECURSIVE Gcd(_, _)
Gcd(a, b) == IF b = 0 THEN a ELSE Gcd(b, a % b)

Abs(x) == IF x < 0 THEN -x ELSE x

NaN == [nan |-> TRUE, n |-> 0, d |-> 1]

Rat(n, d) ==
    LET g == Gcd(Abs(n), Abs(d))
        s == IF d < 0 THEN -1 ELSE 1
    IN  [nan |-> FALSE, n |-> s * (n \div g), d |-> s * (d \div g)]

Num(n) == [nan |-> FALSE, n |-> n, d |-> 1]

\* x > k for an integer k; a comparison with NaN is False
Gt(x, k) == ~x.nan /\ x.n > k * x.d
Le(x, k) == ~x.nan /\ x.n <= k * x.d

Sub(x, y) == IF x.nan \/ y.nan THEN NaN ELSE Rat(x.n * y.d - y.n * x.d, x.d * y.d)

\* numpy float division: x / 0 is inf or nan, no exception
Div(x, y) == IF x.nan \/ y.nan \/ y.n = 0 THEN NaN ELSE Rat(x.n * y.d, x.d * y.n)

Times(x, k) == IF x.nan THEN NaN ELSE Rat(x.n * k, x.d)

-----------------------------------------------------------------------------
(* Sequences.                                                              *)

Range(s) == {s[i] : i \in 1..Len(s)}

RECURSIVE SumSeq(_)
SumSeq(s) == IF s = <<>> THEN 0 ELSE Head(s) + SumSeq(Tail(s))

\* the ascending sort of a sequence of integers
RECURSIVE SortInts(_)
SortInts(s) ==
    IF s = <<>> THEN <<>>
    ELSE LET m == CHOOSE i \in 1..Len(s) : \A j \in 1..Len(s) : s[i] <= s[j]
         IN  <<s[m]>> \o SortInts(SubSeq(s, 1, m - 1) \o SubSeq(s, m + 1, Len(s)))

\* the ascending sequence of a finite set of integers
RECURSIVE SetToSeq(_)
SetToSeq(S) ==
    IF S = {} THEN <<>>
    ELSE LET m == CHOOSE x \in S : \A y \in S : x <= y
         IN  <<m>> \o SetToSeq(S \ {m})

SeqsUpTo(S, n) == UNION {[1..k -> S] : k \in 0..n}

\* pd.read_csv gives the rows a RangeIndex 0, 1, 2, ...
WithIndex(rows) == [i \in 1..Len(rows) |-> rows[i] @@ [idx |-> i - 1]]

-----------------------------------------------------------------------------
(* Sale dates.  A SaleDate cell is text; the model keeps the layout of the *)
(* text and the digits of its date fields.  "slash" is the layout          *)
(* YYYY/MM/DD HH:MM:SS+00, "dash" is YYYY-MM-DD, "blank" an empty cell.    *)

DateText(layout, y, m, d) == [layout |-> layout, Y |-> y, M |-> m, D |-> d]

IsLeap(y) == (y % 4 = 0 /\ y % 100 # 0) \/ y % 400 = 0

DaysInMonth(y, m) ==
    IF m = 2 THEN (IF IsLeap(y) THEN 29 ELSE 28)
    ELSE IF m \in {4, 6, 9, 11} THEN 30 ELSE 31

NaT == [nat |-> TRUE, year |-> 0, month |-> 0]

\* pd.to_datetime(text, format='%Y/%m/%d %H:%M:%S+00', errors='coerce')
to_datetime(t) ==
    IF /\ t.layout = "slash"
       /\ t.M \in 1..12
       /\ t.D \in 1..DaysInMonth(t.Y, t.M)
    THEN [nat |-> FALSE, year |-> t.Y, month |-> t.M]
    ELSE NaT

MinSaleAmount == 10000

AboveFloor_ge(amount) == ~amount.nan /\ amount.n >= MinSaleAmount * amount.d

\* sales['SaleAmount'] > 10000
AboveFloor(amount) == Gt(amount, MinSaleAmount)

\* process_sales_data: parse, drop NaT, derive Year and Month, filter the amount
process_sales_data(sales_df) ==
    LET parsed  == [i \in 1..Len(sales_df) |->
                      sales_df[i] @@ [parsed |-> to_datetime(sales_df[i].SaleDate)]]
        dropped == SelectSeq(parsed, LAMBDA r : ~r.parsed.nat)
        derived == [i \in 1..Len(dropped) |->
                      [idx          |-> dropped[i].idx,
                       ParcelNumber |-> dropped[i].ParcelNumber,
                       SaleDate     |-> dropped[i].parsed,
                       SaleAmount   |-> dropped[i].SaleAmount,
                       Year         |-> dropped[i].parsed.year,
                       Month        |-> dropped[i].parsed.month]]
    IN  SelectSeq(derived, LAMBDA r : AboveFloor(r.SaleAmount))

-----------------------------------------------------------------------------
(* Series statistics.                                                      *)

\* Series.median(): NaN when empty, the mean of the two central values when even
Median(xs) ==
    LET s == SortInts(xs)
        n == Len(s)
    IN  IF n = 0 THEN NaN
        ELSE IF n % 2 = 1 THEN Num(s[(n + 1) \div 2])
        ELSE Rat(s[n \div 2] + s[n \div 2 + 1], 2)

Mean(xs) == IF xs = <<>> THEN NaN ELSE Rat(SumSeq(xs), Len(xs))

\* Series.quantile(0.75), linear interpolation at position (n - 1) * 3 / 4
Quantile75(xs) ==
    LET s  == SortInts(xs)
        n  == Len(s)
        p4 == (n - 1) * 3
        k  == p4 \div 4
        f  == p4 % 4
    IN  IF n = 0 THEN NaN
        ELSE IF f = 0 THEN Num(s[k + 1])
        ELSE Rat(4 * s[k + 1] + f * (s[k + 2] - s[k + 1]), 4)

Amounts(rows) == [i \in 1..Len(rows) |-> rows[i].SaleAmount.n]

FromYear(rows, y) == SelectSeq(rows, LAMBDA r : r.Year >= y)

InYear(rows, y) == SelectSeq(rows, LAMBDA r : r.Year = y)

-----------------------------------------------------------------------------
(* Community Impact Overview (the four metrics at the top of the page).    *)

NotRendered == [rendered |-> FALSE]

median_income == 69829

AffordabilityMultiplier == 3

FloorYear == 2000

Year2020 == 2020

Year2021 == 2021

Year2024 == 2024

affordable_home_price == median_income * AffordabilityMultiplier

\* ((new - old) / old) * 100
PctChange(new, old) == Times(Div(Sub(new, old), old), 100)

affordability_gap_reversed(Last_Year_median_price) ==
    Sub(Num(affordable_home_price), Last_Year_median_price)

\* affordability_gap = Last_Year_median_price - affordable_home_price
affordability_gap(Last_Year_median_price) ==
    Sub(Last_Year_median_price, Num(affordable_home_price))

Overview(sales_processed) ==
    LET Last_Year_median_price == Median(Amounts(FromYear(sales_processed, Year2024)))
        recent_prices          == Median(Amounts(FromYear(sales_processed, Year2024)))
        older_prices           == Median(Amounts(FromYear(sales_processed, Year2020)))
        recent                 == FromYear(sales_processed, Year2020)
        homes_affordable       ==
            Len(SelectSeq(recent, LAMBDA r : Le(r.SaleAmount, affordable_home_price)))
        total_recent_sales     == Len(recent)
    IN  [rendered               |-> TRUE,
         Last_Year_median_price |-> Last_Year_median_price,
         affordable_home_price  |-> affordable_home_price,
         affordability_gap      |-> affordability_gap(Last_Year_median_price),
         price_increase_pct     |-> PctChange(recent_prices, older_prices),
         homes_affordable       |-> homes_affordable,
         total_recent_sales     |-> total_recent_sales,
         affordable_pct         |-> IF total_recent_sales > 0
                                    THEN Rat(homes_affordable * 100, total_recent_sales)
                                    ELSE Num(0),
         income_needed          |-> Div(Last_Year_median_price, Num(AffordabilityMultiplier))]

-----------------------------------------------------------------------------
(* Yearly statistics of the sales and the affordability chart.             *)

\* income_by_year; a year mapped to None, or not mapped, gives NaN under .map
income_by_year(y) ==
    CASE y = 2000 -> Num(32903) [] y = 2001 -> Num(33223) [] y = 2002 -> Num(32785)
      [] y = 2003 -> Num(31363) [] y = 2004 -> Num(31246) [] y = 2005 -> Num(33041)
      [] y = 2006 -> Num(35147) [] y = 2007 -> Num(37195) [] y = 2008 -> Num(42948)
      [] y = 2009 -> Num(39030) [] y = 2010 -> Num(42240) [] y = 2011 -> Num(43980)
      [] y = 2012 -> Num(44535) [] y = 2013 -> Num(44601) [] y = 2014 -> Num(47218)
      [] y = 2015 -> Num(49775) [] y = 2016 -> Num(50727) [] y = 2017 -> Num(54739)
      [] y = 2018 -> Num(58933) [] y = 2019 -> Num(59471) [] y = 2020 -> Num(59598)
      [] y = 2021 -> Num(63470) [] y = 2022 -> Num(67177) [] y = 2023 -> Num(69829)
      [] OTHER -> NaN

SinceFloor_after(years) == SelectSeq(years, LAMBDA y : y > FloorYear)

\* stats[stats['Year'] >= 2000]
SinceFloor(years) == SelectSeq(years, LAMBDA y : y >= FloorYear)

AffordablePrice_fillna(income) ==
    IF income.nan THEN Num(0) ELSE Times(income, AffordabilityMultiplier)

\* yearly_stats['MedianIncome'] * 3
AffordablePrice(income) == Times(income, AffordabilityMultiplier)

\* groupby('Year')['SaleAmount'].agg(median, mean, count), Year >= 2000, merged
\* with the 75th percentile, the income and the affordable price of the year
yearly_stats(sales_processed) ==
    LET years == SetToSeq({r.Year : r \in Range(sales_processed)})
        kept  == SinceFloor(years)
    IN  [i \in 1..Len(kept) |->
           LET xs == Amounts(InYear(sales_processed, kept[i]))
           IN  [Year            |-> kept[i],
                MedianPrice     |-> Median(xs),
                AveragePrice    |-> Mean(xs),
                Sales           |-> Len(xs),
                Percentile75    |-> Quantile75(xs),
                MedianIncome    |-> income_by_year(kept[i]),
                AffordablePrice |-> AffordablePrice(income_by_year(kept[i]))]]

\* stats[stats['Year'] == y][col].iloc[0] if len(...) > 0 else 0
ValueOfYear(stats, y, col) ==
    LET hit == SelectSeq(stats, LAMBDA r : r.Year = y)
    IN  IF Len(hit) > 0 THEN hit[1][col] ELSE Num(0)

\* ((latest - base) / base * 100) if base > 0 else 0
IncreaseSince(latest, base) == IF Gt(base, 0) THEN PctChange(latest, base) ELSE Num(0)

Yearly(sales_processed) ==
    LET ys         == yearly_stats(sales_processed)
        price_2000 == ValueOfYear(ys, FloorYear, "MedianPrice")
        price_2020 == ValueOfYear(ys, Year2020, "MedianPrice")
        price_2024 == ValueOfYear(ys, Year2024, "MedianPrice")
    IN  [rendered        |-> TRUE,
         yearly_stats    |-> ys,
         price_2000      |-> price_2000,
         price_2020      |-> price_2020,
         price_2024      |-> price_2024,
         total_increase  |-> IncreaseSince(price_2024, price_2000),
         recent_increase |-> IncreaseSince(price_2024, price_2020),
         raised          |-> "none"]

-----------------------------------------------------------------------------
(* Assessment values over time.                                            *)

assessment_stats(all_assessments) ==
    LET years == SetToSeq({r.TaxYear : r \in Range(all_assessments)})
        kept  == SinceFloor(years)
    IN  [i \in 1..Len(kept) |->
           LET rows == SelectSeq(all_assessments, LAMBDA r : r.TaxYear = kept[i])
               xs   == [j \in 1..Len(rows) |-> rows[j].TotalValue]
           IN  [Year              |-> kept[i],
                MedianAssessment  |-> Median(xs),
                AverageAssessment |-> Mean(xs)]]

\* assessment_stats.iloc[-1] raises IndexError on an empty frame
AssessmentChart(all_assessments) ==
    LET st              == assessment_stats(all_assessments)
        assessment_2021 == ValueOfYear(st, Year2021, "MedianAssessment")
    IN  IF Len(st) = 0
        THEN [rendered |-> FALSE, raised |-> "IndexError"]
        ELSE [rendered            |-> TRUE,
              assessment_stats    |-> st,
              assessment_2021     |-> assessment_2021,
              assessment_latest   |-> st[Len(st)].MedianAssessment,
              assessment_increase |-> IncreaseSince(st[Len(st)].MedianAssessment,
                                                    assessment_2021),
              raised              |-> "none"]

-----------------------------------------------------------------------------
(* Sales activity over time.                                               *)

sales_by_year(sales_processed) ==
    LET rows  == FromYear(sales_processed, FloorYear)
        years == SetToSeq({r.Year : r \in Range(rows)})
    IN  [i \in 1..Len(years) |->
           [Year |-> years[i], SalesCount |-> Num(Len(InYear(rows, years[i])))]]

\* max(sales_by_year['SalesCount']) raises ValueError on an empty column
SalesActivity(sales_processed) ==
    LET sy         == sales_by_year(sales_processed)
        sales_2021 == ValueOfYear(sy, Year2021, "SalesCount")
        sales_2024 == ValueOfYear(sy, Year2024, "SalesCount")
    IN  IF Len(sy) = 0
        THEN [rendered |-> FALSE, raised |-> "ValueError"]
        ELSE [rendered      |-> TRUE,
              sales_by_year |-> sy,
              sales_2021    |-> sales_2021,
              sales_2024    |-> sales_2024,
              sales_change  |-> IncreaseSince(sales_2024, sales_2021),
              raised        |-> "none"]

-----------------------------------------------------------------------------
(* Text.  A string is a sequence of one-character strings.                 *)

LowerCase == <<"a", "b", "c", "d", "e", "f", "g", "h", "i", "j", "k", "l", "m",
               "n", "o", "p", "q", "r", "s", "t", "u", "v", "w", "x", "y", "z">>

UpperCase == <<"A", "B", "C", "D", "E", "F", "G", "H", "I", "J", "K", "L", "M",
               "N", "O", "P", "Q", "R", "S", "T", "U", "V", "W", "X", "Y", "Z">>

Whitespace == {" ", "\t", "\n"}

UpperChar(c) ==
    IF \E i \in 1..26 : LowerCase[i] = c
    THEN UpperCase[CHOOSE i \in 1..26 : LowerCase[i] = c]
    ELSE c

\* str.upper()
Upper(s) == [i \in 1..Len(s) |-> UpperChar(s[i])]

RECURSIVE LStrip(_)
LStrip(s) == IF s # <<>> /\ Head(s) \in Whitespace THEN LStrip(Tail(s)) ELSE s

RECURSIVE RStrip(_)
RStrip(s) ==
    IF s # <<>> /\ s[Len(s)] \in Whitespace THEN RStrip(SubSeq(s, 1, Len(s) - 1)) ELSE s

\* str.strip()
Strip(s) == RStrip(LStrip(s))

DigitChars == <<"0", "1", "2", "3", "4", "5", "6", "7", "8", "9">>

\* str(n) of a non-negative integer
RECURSIVE IntToStr(_)
IntToStr(n) ==
    IF n < 10 THEN <<DigitChars[n + 1]>>
    ELSE IntToStr(n \div 10) \o <<DigitChars[(n % 10) + 1]>>

-----------------------------------------------------------------------------
(* Sorting as pandas does it: nargsort over numpy's argsort.  sort_values  *)
(* is called with the default kind='quicksort', which is not stable: the   *)
(* order it leaves equal keys in depends on the numpy build.  The model    *)
(* keeps two builds: "insertion" leaves equal keys in their order,         *)
(* "other" leaves them reversed.                                           *)

RECURSIVE Reverse(_)
Reverse(s) == IF s = <<>> THEN <<>> ELSE Reverse(Tail(s)) \o <<Head(s)>>

\* positions of keys in ascending key order, equal keys in position order
RECURSIVE StableArgSort(_, _)
StableArgSort(keys, left) ==
    IF left = {} THEN <<>>
    ELSE LET m == CHOOSE i \in left :
                    \A j \in left : keys[i] < keys[j] \/ (keys[i] = keys[j] /\ i <= j)
         IN  <<m>> \o StableArgSort(keys, left \ {m})

\* positions of keys in ascending key order, equal keys in reverse position order
RECURSIVE ReversingArgSort(_, _)
ReversingArgSort(keys, left) ==
    IF left = {} THEN <<>>
    ELSE LET m == CHOOSE i \in left :
                    \A j \in left : keys[i] < keys[j] \/ (keys[i] = keys[j] /\ i >= j)
         IN  <<m>> \o ReversingArgSort(keys, left \ {m})

\* ndarray.argsort(kind='quicksort')
argsort(keys, build) ==
    IF build = "insertion" THEN StableArgSort(keys, DOMAIN keys)
    ELSE ReversingArgSort(keys, DOMAIN keys)

\* pandas nargsort: a descending sort reverses, sorts ascending and reverses back
nargsort(keys, ascending, build) ==
    IF ascending THEN argsort(keys, build)
    ELSE LET n   == Len(keys)
             rev == Reverse(keys)
             ix  == argsort(rev, build)
         IN  Reverse([i \in 1..n |-> n + 1 - ix[i]])

sort_values_unsorted(rows, col, ascending, build) == rows

\* DataFrame.sort_values(by=col, ascending=ascending)
sort_values(rows, col, ascending, build) ==
    LET ix == nargsort([i \in 1..Len(rows) |-> rows[i][col]], ascending, build)
    IN  [i \in 1..Len(rows) |-> rows[ix[i]]]

-----------------------------------------------------------------------------
(* Property search.                                                        *)

\* re.compile(pat): of the characters of the model, "(" opens a group that
\* nothing closes, which raises re.error; "." matches any character
re_compiles(pat) == \A i \in 1..Len(pat) : pat[i] # "("

\* re.compile(pat, re.IGNORECASE).search(text) is not None
re_search(pat, text) ==
    \E i \in 0..(Len(text) - Len(pat)) :
        \A k \in 1..Len(pat) :
            pat[k] = "." \/ UpperChar(pat[k]) = UpperChar(text[i + k])

\* all_assessments['StreetNumber'].astype(str) + ' ' + all_assessments['StreetName'].astype(str)
FullAddress(r) == IntToStr(r.StreetNumber) \o <<" ">> \o r.StreetName

\* Series.str.contains(search_address.upper(), case=False, na=False) on either column
matching_properties(all_assessments, search_address) ==
    LET pat == Upper(search_address)
    IN  SelectSeq(all_assessments,
                  LAMBDA r : re_search(pat, FullAddress(r)) \/ re_search(pat, r.StreetName))

\* matching_properties[['ParcelNumber', 'FullAddress']].drop_duplicates()
RECURSIVE drop_duplicates(_)
drop_duplicates(pairs) ==
    IF pairs = <<>> THEN <<>>
    ELSE LET init == drop_duplicates(SubSeq(pairs, 1, Len(pairs) - 1))
             last == pairs[Len(pairs)]
         IN  IF last \in Range(init) THEN init ELSE Append(init, last)

unique_addresses(matching) ==
    drop_duplicates([i \in 1..Len(matching) |->
                       [ParcelNumber |-> matching[i].ParcelNumber,
                        FullAddress  |-> FullAddress(matching[i])]])

NoSelectbox == [shown |-> FALSE, options |-> <<>>, index |-> 0, value |-> <<>>]

\* st.selectbox(label, options): a widget with the same label and options as one of
\* the last run keeps the position picked; a new one starts at its first option.
\* What it returns is the option at that position, a string.
selectbox(options, previous) ==
    [shown   |-> TRUE,
     options |-> options,
     index   |-> IF previous.shown /\ previous.options = options
                 THEN previous.index ELSE 1,
     value   |-> IF previous.shown /\ previous.options = options
                 THEN options[previous.index] ELSE options[1]]

SearchIdle ==
    [ran |-> FALSE, raised |-> "none", n_matching |-> 0, matching |-> <<>>,
     unique_addresses |-> <<>>, selectbox |-> NoSelectbox, looked_up |-> FALSE,
     selected_address |-> <<>>, selected_parcel |-> 0, property_history |-> <<>>,
     has_2021 |-> FALSE, change_shown |-> FALSE, total_change |-> NaN, pct_change |-> NaN]

Search(all_assessments, search_address, previous, build) ==
    IF search_address = <<>> THEN SearchIdle
    ELSE IF ~re_compiles(Upper(search_address))
    THEN [ran |-> TRUE, raised |-> "re.error"] @@ SearchIdle
    ELSE
    LET matching == matching_properties(all_assessments, search_address)
        unique   == unique_addresses(matching)
    IN  IF Len(matching) = 0 THEN [ran |-> TRUE] @@ SearchIdle
        ELSE
        LET box              == IF Len(unique) > 1
                                THEN selectbox([i \in 1..Len(unique) |-> unique[i].FullAddress],
                                               previous)
                                ELSE NoSelectbox
            selected_address == IF Len(unique) > 1 THEN box.value ELSE unique[1].FullAddress
            selected_parcel  ==
                IF Len(unique) > 1
                THEN SelectSeq(unique, LAMBDA u : u.FullAddress = selected_address)[1].ParcelNumber
                ELSE unique[1].ParcelNumber
            property_history ==
                sort_values(SelectSeq(all_assessments,
                                      LAMBDA r : r.ParcelNumber = selected_parcel),
                            "TaxYear", TRUE, build)
            latest_assessment == property_history[Len(property_history)]
            assessment_2021   == SelectSeq(property_history, LAMBDA r : r.TaxYear = Year2021)
            found ==
                [ran |-> TRUE, n_matching |-> Len(matching), matching |-> matching,
                 unique_addresses |-> unique, selectbox |-> box, looked_up |-> TRUE,
                 selected_address |-> selected_address, selected_parcel |-> selected_parcel,
                 property_history |-> property_history,
                 has_2021 |-> Len(assessment_2021) > 0]
        IN  IF Len(assessment_2021) = 0
            THEN ([raised |-> "IndexError"] @@ found) @@ SearchIdle
            ELSE LET total_change ==
                         Num(latest_assessment.TotalValue - assessment_2021[1].TotalValue)
                 IN  ([change_shown |-> TRUE,
                       total_change |-> total_change,
                       pct_change   |-> Times(Div(total_change,
                                                  Num(assessment_2021[1].TotalValue)), 100)]
                      @@ found) @@ SearchIdle

-----------------------------------------------------------------------------
(* Ownership statistics.                                                   *)

LocalToken == <<"C", "H", "A", "R", "L", "O", "T", "T", "E", "S", "V", "I", "L", "L", "E",
                " ", "V", "A">>

SquareFeetPerAcre == 43560

IsLocal_no_strip(r) == Upper(r.OwnerCityState.s) = LocalToken

\* OwnerCityState.astype(str).str.strip().str.upper() == 'CHARLOTTESVILLE VA'
IsLocal(r) == Upper(Strip(r.OwnerCityState.s)) = LocalToken

\* parcel_details.dropna(subset=['OwnerCityState'])
parcel_details(parcel_boundary_details) ==
    SelectSeq(parcel_boundary_details, LAMBDA r : ~r.OwnerCityState.null)

LotSum(rows) == SumSeq([i \in 1..Len(rows) |-> rows[i].LotSquareFeet])

NonLocal_no_strip(pd) == SelectSeq(pd, LAMBDA r : ~IsLocal_no_strip(r))

\* parcel_details[~parcel_details['IsLocal']]
NonLocal(pd) == SelectSeq(pd, LAMBDA r : ~IsLocal(r))

\* f"{100-local_pct:.1f}%": the percentage shown for the non-local owners
NonLocalPct(pct) == Sub(Num(100), pct)

Ownership(parcel_boundary_details) ==
    LET pd                == parcel_details(parcel_boundary_details)
        total_parcels     == Len(pd)
        local_parcels     == Len(SelectSeq(pd, IsLocal))
        total_land_area   == LotSum(pd)
        local_land_area   == LotSum(SelectSeq(pd, IsLocal))
    IN  [rendered            |-> TRUE,
         total_parcels       |-> total_parcels,
         local_parcels       |-> local_parcels,
         non_local_parcels   |-> total_parcels - local_parcels,
         local_pct           |-> IF total_parcels > 0
                                 THEN Rat(local_parcels * 100, total_parcels) ELSE Num(0),
         total_land_area     |-> total_land_area,
         local_land_area     |-> local_land_area,
         non_local_land_area |-> LotSum(NonLocal(pd)),
         local_land_pct      |-> IF total_land_area > 0
                                 THEN Rat(local_land_area * 100, total_land_area)
                                 ELSE Num(0),
         non_local_pct       |-> NonLocalPct(IF total_parcels > 0
                                             THEN Rat(local_parcels * 100, total_parcels)
                                             ELSE Num(0)),
         non_local_land_pct  |-> NonLocalPct(IF total_land_area > 0
                                             THEN Rat(local_land_area * 100, total_land_area)
                                             ELSE Num(0))]

-----------------------------------------------------------------------------
(* Top property owners.                                                    *)

\* characters in code-point order, for comparing strings
CodePoints == <<"\t", "\n", " ", "(", ".">> \o DigitChars \o UpperCase \o LowerCase

Ord(c) == CHOOSE i \in 1..Len(CodePoints) : CodePoints[i] = c

RECURSIVE StrLess(_, _)
StrLess(a, b) ==
    IF b = <<>> THEN FALSE
    ELSE IF a = <<>> THEN TRUE
    ELSE IF Head(a) = Head(b) THEN StrLess(Tail(a), Tail(b))
    ELSE Ord(Head(a)) < Ord(Head(b))

\* the group keys of groupby('OwnerName'), which sorts them
RECURSIVE SortedNames(_)
SortedNames(S) ==
    IF S = {} THEN <<>>
    ELSE LET m == CHOOSE x \in S : \A y \in S \ {x} : StrLess(x, y)
         IN  <<m>> \o SortedNames(S \ {m})

\* parcel_details.groupby('OwnerName').agg(size, sum, sum).reset_index()
owner_groups(pd, has_assessment) ==
    LET names == SortedNames({r.OwnerName : r \in Range(pd)})
    IN  [i \in 1..Len(names) |->
           LET rows == SelectSeq(pd, LAMBDA r : r.OwnerName = names[i])
           IN  [OwnerName       |-> names[i],
                TotalProperties |-> Len(rows),
                TotalSquareFeet |-> LotSum(rows),
                TotalAssessment |->
                    IF has_assessment
                    THEN SumSeq([j \in 1..Len(rows) |-> rows[j].Assessment])
                    ELSE 0]]

top_owners_ascending(pd, has_assessment, build) ==
    LET sorted == sort_values(owner_groups(pd, has_assessment), "TotalProperties", TRUE, build)
    IN  [i \in 1..Len(sorted) |->
           sorted[i] @@ [TotalAcres |-> Rat(sorted[i].TotalSquareFeet, SquareFeetPerAcre)]]

\* top_owners.sort_values(by='TotalProperties', ascending=False), with TotalAcres
top_owners(pd, has_assessment, build) ==
    LET sorted == sort_values(owner_groups(pd, has_assessment), "TotalProperties", FALSE, build)
    IN  [i \in 1..Len(sorted) |->
           sorted[i] @@ [TotalAcres |-> Rat(sorted[i].TotalSquareFeet, SquareFeetPerAcre)]]

TopN == 10

Head10(rows) == SubSeq(rows, 1, IF Len(rows) < TopN THEN Len(rows) ELSE TopN)

OwnersError == "Error analyzing top property owners"

\* The try block of the owner analysis.  The chart of the top ten by land area
\* is drawn from top_10_owners, and assessment_data is top_10_owners sorted by
\* the total assessment.  display_df gets three column names (a
\* fourth only if display_columns had more than three entries): a frame of two
\* columns raises ValueError.  With no owner at all assessment_data.iloc[-1]
\* raises IndexError after the table is shown.  Both are caught and reported.
TopOwners(pd, has_assessment, build) ==
    LET ranking         == top_owners(pd, has_assessment, build)
        display_columns == IF has_assessment THEN 3 ELSE 2
        new_names       == 3 + (IF display_columns > 3 THEN 1 ELSE 0)
    IN  IF display_columns # new_names
        THEN [rendered |-> TRUE, delivered |-> FALSE, top_owners |-> ranking,
              top_10_owners |-> <<>>, fig_top_acres |-> <<>>, assessment_data |-> <<>>,
              caught |-> "ValueError", errors |-> <<OwnersError>>]
        ELSE IF Len(ranking) = 0
        THEN [rendered |-> TRUE, delivered |-> TRUE, top_owners |-> ranking,
              top_10_owners |-> <<>>, fig_top_acres |-> <<>>, assessment_data |-> <<>>,
              caught |-> "IndexError", errors |-> <<OwnersError>>]
        ELSE [rendered |-> TRUE, delivered |-> TRUE, top_owners |-> ranking,
              top_10_owners |-> Head10(ranking),
              fig_top_acres |-> Head10(ranking),
              assessment_data |-> sort_values(Head10(ranking), "TotalAssessment", TRUE, build),
              caught |-> "none", errors |-> <<>>]

-----------------------------------------------------------------------------
(* Loading.                                                                *)

FileNames == {"Real_Estate_Sales.csv", "Real_Estate_All_Assessments.csv",
              "Parcel_Boundary_Area_Details.csv"}

LoadError == "Error loading data"

UnableToLoad == "Unable to load data. Please check file paths and try again."

\* The body of load_all_data: the three tables, or None after st.error.  The
\* cache keeps the return value and the elements the body rendered.
load_all_data_body(f) ==
    IF FileNames \subseteq f.readable
    THEN [none |-> FALSE, errors |-> <<>>,
          sales |-> f.sales, all_assessments |-> f.all_assessments,
          parcel_boundary_details |-> f.parcel_boundary_details,
          has_assessment |-> f.has_assessment]
    ELSE [none |-> TRUE, errors |-> <<LoadError>>,
          sales |-> <<>>, all_assessments |-> <<>>, parcel_boundary_details |-> <<>>,
          has_assessment |-> FALSE]

\* @st.cache_data: a hit returns the stored value and replays its elements.  The
\* function takes no argument, so the one entry is never replaced.
load_all_data(f, c) == IF c = <<>> THEN load_all_data_body(f) ELSE c[1]

\* @st.cache_data on process_sales_data: the key is the hash of the frame passed
process_sales_data_cached(sales_df, sc) ==
    IF \E e \in sc : e.key = sales_df
    THEN (CHOOSE e \in sc : e.key = sales_df).value
    ELSE process_sales_data(sales_df)

-----------------------------------------------------------------------------
(* The frames of a run.  A DataFrame is an object: a name may be bound to  *)
(* the frame another name holds, and df[col] = ... changes the frame for   *)
(* every name bound to it.  The heap is the sequence of the frames made so *)
(* far; a frame maps each of its columns to what wrote it ("csv" for a     *)
(* column as read from the file).  Frames 1, 2 and 3 are data['sales'],    *)
(* data['all_assessments'] and data['parcel_boundary_details'].            *)

SalesColumns == {"ParcelNumber", "SaleDate", "SaleAmount"}

AssessmentColumns == {"ParcelNumber", "TaxYear", "TotalValue", "StreetNumber", "StreetName"}

ParcelColumns(has_assessment) ==
    {"OwnerName", "OwnerCityState", "LotSquareFeet"}
        \cup (IF has_assessment THEN {"Assessment"} ELSE {})

AsRead(columns) == [c \in columns |-> "csv"]

\* the frames pd.read_csv made
LoadedFrames(has_assessment) ==
    <<AsRead(SalesColumns), AsRead(AssessmentColumns), AsRead(ParcelColumns(has_assessment))>>

Ref(h, ref) == [heap |-> h, ref |-> ref]

df_copy_alias(r) == r

\* df.copy(): a new frame with the columns of df
df_copy(r) == Ref(Append(r.heap, r.heap[r.ref]), Len(r.heap) + 1)

\* df.dropna(subset=...) and df[mask]: a new frame
df_select(r) == Ref(Append(r.heap, r.heap[r.ref]), Len(r.heap) + 1)

\* df[col] = value and df.loc[:, col] = value: the frame itself changes
df_setitem(r, col, by) ==
    Ref([r.heap EXCEPT ![r.ref] =
            [c \in (DOMAIN r.heap[r.ref]) \cup {col} |->
                IF c = col THEN by ELSE r.heap[r.ref][c]]],
        r.ref)

\* the body of process_sales_data, run on a cache miss
process_sales_frames(h) ==
    df_select(df_setitem(df_setitem(df_select(df_setitem(df_copy(Ref(h, 1)),
        "SaleDate", "to_datetime")), "Year", "dt.year"), "Month", "dt.month")).heap

\* all_assessments = data['all_assessments'].copy() of the assessment chart
assessment_frames(h) == df_copy(Ref(h, 2)).heap

\* the copy of the search, with FullAddress
search_frames(h) == df_setitem(df_copy(Ref(h, 2)), "FullAddress", "concat").heap

\* parcel_details: copy, dropna, copy, OwnerCityState_Clean and IsLocal
ownership_frames(h) ==
    df_setitem(df_setitem(df_copy(df_select(df_copy(Ref(h, 3)))),
        "OwnerCityState_Clean", "strip.upper"), "IsLocal", "eq").heap

Tables(h) == [sales |-> h[1], all_assessments |-> h[2], parcel_boundary_details |-> h[3]]

\* sales_processed = process_sales_data(data['sales']): a cache hit runs no body
sales_step(h, hit) == IF hit THEN h ELSE process_sales_frames(h)

\* if search_address: ...
search_step(h, searched) == IF searched THEN search_frames(h) ELSE h

\* the ownership section, when the run gets to it
ownership_step(h, owned) == IF owned THEN ownership_frames(h) ELSE h

\* what the run leaves of the three frames of data
FramesAfter(has_assessment, hit, searched, owned) ==
    Tables(ownership_step(search_step(assessment_frames(sales_step(
        LoadedFrames(has_assessment), hit)), searched), owned))

NoTables == [sales |-> <<>>, all_assessments |-> <<>>, parcel_boundary_details |-> <<>>]

-----------------------------------------------------------------------------
(* One run of the script.                                                  *)

NotRun ==
    [ran |-> FALSE, loaded |-> FALSE, errors |-> <<>>, exception |-> "none",
     sales_processed |-> <<>>, overview |-> NotRendered, yearly |-> NotRendered,
     assessment |-> NotRendered, activity |-> NotRendered, search_input |-> FALSE,
     search |-> SearchIdle, ownership |-> NotRendered, owners |-> NotRendered,
     summary |-> FALSE, tables |-> NoTables]

\* the sections in page order; the first exception ends the run
Sections(data, sales_processed, assessment, activity, search, owners) ==
    IF assessment.raised # "none"
    THEN [ran |-> TRUE, loaded |-> TRUE, errors |-> data.errors,
          exception |-> assessment.raised, sales_processed |-> sales_processed,
          overview |-> Overview(sales_processed), yearly |-> Yearly(sales_processed)]
         @@ NotRun
    ELSE IF activity.raised # "none"
    THEN [ran |-> TRUE, loaded |-> TRUE, errors |-> data.errors,
          exception |-> activity.raised, sales_processed |-> sales_processed,
          overview |-> Overview(sales_processed), yearly |-> Yearly(sales_processed),
          assessment |-> assessment]
         @@ NotRun
    ELSE IF search.raised # "none"
    THEN [ran |-> TRUE, loaded |-> TRUE, errors |-> data.errors,
          exception |-> search.raised, sales_processed |-> sales_processed,
          overview |-> Overview(sales_processed), yearly |-> Yearly(sales_processed),
          assessment |-> assessment, activity |-> activity,
          search_input |-> TRUE, search |-> search]
         @@ NotRun
    ELSE [ran |-> TRUE, loaded |-> TRUE, errors |-> data.errors \o owners.errors,
          exception |-> "none", sales_processed |-> sales_processed,
          overview |-> Overview(sales_processed), yearly |-> Yearly(sales_processed),
          assessment |-> assessment, activity |-> activity,
          search_input |-> TRUE, search |-> search,
          ownership |-> Ownership(data.parcel_boundary_details),
          owners |-> owners, summary |-> TRUE]

\* if data: ... else: st.error("Unable to load data. ...")
Page(data, sales_processed, w, b) ==
    IF data.none
    THEN [ran |-> TRUE, errors |-> data.errors \o <<UnableToLoad>>] @@ NotRun
    ELSE Sections(data, sales_processed,
                  AssessmentChart(data.all_assessments),
                  SalesActivity(sales_processed),
                  Search(data.all_assessments, w.search_address, w.selectbox, b),
                  TopOwners(parcel_details(data.parcel_boundary_details),
                            data.has_assessment, b))

\* the output of the run with the frames of data as the run leaves them
WithTables(o, has_assessment, hit) ==
    IF o.loaded
    THEN [tables |-> FramesAfter(has_assessment, hit, o.search.ran,
                                 o.ownership.rendered)] @@ o
    ELSE o

Loaded(data, sc, w, b) ==
    WithTables(Page(data, process_sales_data_cached(data.sales, sc), w, b),
               data.has_assessment, \E e \in sc : e.key = data.sales)

Script(f, c, sc, w, b) == Loaded(load_all_data(f, c), sc, w, b)

\* the state a run leaves: the cache filled, the widgets it rendered, its output
Leave(w, o) ==
    /\ out' = o
    /\ cache' = IF cache = <<>> THEN <<load_all_data_body(files)>> ELSE cache
    /\ sales_cache' = IF o.loaded
                      THEN sales_cache \cup {[key   |-> load_all_data(files, cache).sales,
                                               value |-> o.sales_processed]}
                      ELSE sales_cache
    /\ widgets' = [search_address |-> IF o.search_input THEN w.search_address ELSE <<>>,
                   selectbox      |-> o.search.selectbox]
    /\ up_to_date' = TRUE
    /\ UNCHANGED <<files, numpy_build>>

Rerun(w) == Leave(w, Script(files, cache, sales_cache, w, numpy_build))

NoWidgets == [search_address |-> <<>>, selectbox |-> NoSelectbox]

\* the browser opens the page
PageLoad ==
    /\ ~out.ran
    /\ Rerun(NoWidgets)
    /\ explicit' = FALSE

Queries ==
    { <<"M", "A", "I", "N">>, <<"m", "a", "i", "n">>, <<"O", "A", "K">>,
      <<"7", " ", "O">>, <<"1", ".", "3">>, <<".">>, <<"(">>, <<"E", "L", "M">> }

\* the user types an address into the text input
EnterAddress(q) ==
    /\ out.ran /\ out.search_input
    /\ q # widgets.search_address
    /\ Rerun([widgets EXCEPT !.search_address = q])
    /\ explicit' = (explicit /\ widgets'.selectbox.shown
                             /\ widgets'.selectbox.options = widgets.selectbox.options)

\* the user picks another option of the selectbox
SelectAddress(i) ==
    /\ out.ran /\ widgets.selectbox.shown
    /\ i \in 1..Len(widgets.selectbox.options)
    /\ i # widgets.selectbox.index
    /\ Rerun([widgets EXCEPT !.selectbox.index = i,
                             !.selectbox.value = widgets.selectbox.options[i]])
    /\ explicit' = TRUE

\* the user reloads the page: a new session, the cache kept
Refresh ==
    /\ out.ran
    /\ Rerun(NoWidgets)
    /\ explicit' = FALSE

\* a CSV file that could not be read is put in place
RestoreFile(name) ==
    /\ name \in FileNames \ files.readable
    /\ files' = [files EXCEPT !.readable = @ \cup {name}]
    /\ up_to_date' = FALSE
    /\ UNCHANGED <<cache, sales_cache, widgets, explicit, numpy_build, out>>

\* Real_Estate_Sales.csv is replaced by a newer export
ReplaceSales(s) ==
    /\ WithIndex(s) # files.sales
    /\ files' = [files EXCEPT !.sales = WithIndex(s)]
    /\ up_to_date' = FALSE
    /\ UNCHANGED <<cache, sales_cache, widgets, explicit, numpy_build, out>>

Next ==
    \/ PageLoad
    \/ Refresh
    \/ \E q \in Queries : EnterAddress(q)
    \/ \E i \in 1..MaxAssess : SelectAddress(i)

-----------------------------------------------------------------------------
(* The input tables the model draws from.                                  *)

SaleDates ==
    { DateText("slash", 1999, 12, 31), DateText("slash", 2000, 6, 15),
      DateText("slash", 2020, 2, 29),  DateText("slash", 2021, 7, 1),
      DateText("slash", 2024, 11, 30), DateText("dash", 2021, 7, 1),
      DateText("slash", 2023, 2, 30),  DateText("blank", 0, 0, 0) }

SaleAmounts == { Num(10000), Num(10001), Num(200000), Num(450000), NaN }

SalePool ==
    { [ParcelNumber |-> 1, SaleDate |-> d, SaleAmount |-> a] : d \in SaleDates, a \in SaleAmounts }

MAIN_ST == <<"M", "A", "I", "N", " ", "S", "T">>

OAK_AVE == <<"O", "A", "K", " ", "A", "V", "E">>

Assessment(parcel, year, value, number, street) ==
    [ParcelNumber |-> parcel, TaxYear |-> year, TotalValue |-> value,
     StreetNumber |-> number, StreetName |-> street]

AssessPool ==
    { Assessment(1, 2021, 300000, 123, MAIN_ST), Assessment(1, 2024, 400000, 123, MAIN_ST),
      Assessment(2, 2022, 250000, 45, MAIN_ST),  Assessment(3, 2021, 0, 7, OAK_AVE),
      Assessment(3, 1999, 90000, 7, OAK_AVE),    Assessment(4, 2021, 150000, 123, MAIN_ST) }

Text(null, s) == [null |-> null, s |-> s]

CityStates ==
    { Text(FALSE, LocalToken),
      Text(FALSE, <<"c", "h", "a", "r", "l", "o", "t", "t", "e", "s", "v", "i", "l", "l", "e",
                    " ", "v", "a", " ">>),
      Text(FALSE, <<" ", "C", "h", "a", "r", "l", "o", "t", "t", "e", "s", "v", "i", "l", "l",
                    "e", " ", "V", "A">>),
      Text(FALSE, <<"C", "H", "A", "R", "L", "O", "T", "T", "E", "S", "V", "I", "L", "L", "E",
                    " ", " ", "V", "A">>),
      Text(FALSE, <<"R", "I", "C", "H", "M", "O", "N", "D", " ", "V", "A">>),
      Text(TRUE, <<>>) }

ACME == <<"A", "C", "M", "E">>

CITY == <<"C", "I", "T", "Y">>

UVA == <<"U", "V", "A">>

Parcel(owner, city, lot, value) ==
    [OwnerName |-> owner, OwnerCityState |-> city, LotSquareFeet |-> lot, Assessment |-> value]

\* one owner, every spelling of the owner's city and state
AddressPool ==
    { Parcel(ACME, c, 43560, 100000) : c \in CityStates }
        \cup { Parcel(ACME, Text(FALSE, LocalToken), 1000, 100000),
               Parcel(ACME, Text(TRUE, <<>>), 1000, 100000) }

\* every owner, one address
OwnerPool ==
    { Parcel(ACME, Text(FALSE, LocalToken), 43560, 100000),
      Parcel(ACME, Text(FALSE, LocalToken), 43560, 500000),
      Parcel(CITY, Text(FALSE, LocalToken), 43560, 100000),
      Parcel(UVA, Text(FALSE, LocalToken), 43560, 500000) }

DefaultSales ==
    << [ParcelNumber |-> 1, SaleDate |-> DateText("slash", 2000, 6, 15), SaleAmount |-> Num(150000)],
       [ParcelNumber |-> 1, SaleDate |-> DateText("slash", 2020, 2, 29), SaleAmount |-> Num(300000)],
       [ParcelNumber |-> 2, SaleDate |-> DateText("slash", 2021, 7, 1),  SaleAmount |-> Num(200000)],
       [ParcelNumber |-> 1, SaleDate |-> DateText("slash", 2024, 11, 30), SaleAmount |-> Num(450000)] >>

DefaultAssessments ==
    << Assessment(1, 2021, 300000, 123, MAIN_ST), Assessment(2, 2022, 250000, 45, MAIN_ST),
       Assessment(3, 2021, 200000, 7, OAK_AVE),   Assessment(1, 2024, 400000, 123, MAIN_ST) >>

DefaultParcels ==
    << Parcel(UVA, Text(FALSE, LocalToken), 43560, 500000),
       Parcel(ACME, Text(FALSE, <<"R", "I", "C", "H", "M", "O", "N", "D", " ", "V", "A">>),
              1000, 100000),
       Parcel(UVA, Text(FALSE, LocalToken), 1000, 100000) >>

Builds == {"insertion", "other"}

Files(readable, sales, assessments, parcels, has_assessment) ==
    [readable                |-> readable,
     sales                   |-> WithIndex(sales),
     all_assessments         |-> WithIndex(assessments),
     parcel_boundary_details |-> WithIndex(parcels),
     has_assessment          |-> has_assessment]

InitWith(f, b) ==
    /\ files = f
    /\ cache = <<>>
    /\ sales_cache = {}
    /\ widgets = NoWidgets
    /\ explicit = FALSE
    /\ numpy_build = b
    /\ out = NotRun
    /\ up_to_date = FALSE

-----------------------------------------------------------------------------
(* Spec: the page with its search, over every assessment table and every   *)
(* set of readable files.                                                  *)

\* the assessment table has one record per parcel and tax year
OnePerParcelAndYear(a) ==
    \A i, j \in 1..Len(a) :
        (a[i].ParcelNumber = a[j].ParcelNumber /\ a[i].TaxYear = a[j].TaxYear) => i = j

Init ==
    \/ \E r \in SUBSET FileNames :
         InitWith(Files(r, DefaultSales, DefaultAssessments, DefaultParcels, TRUE), "insertion")
    \/ \E a \in SeqsUpTo(AssessPool, MaxAssess) : \E b \in Builds :
         /\ OnePerParcelAndYear(a)
         /\ InitWith(Files(FileNames, DefaultSales, a, DefaultParcels, TRUE), b)

Spec == Init /\ [][Next]_vars

(* SpecSales: the page load over every sales table.                        *)

InitSales ==
    \E s \in SeqsUpTo(SalePool, MaxSales) :
        InitWith(Files(FileNames, s, DefaultAssessments, DefaultParcels, TRUE), "insertion")

NextSales == PageLoad \/ Refresh

SpecSales == InitSales /\ [][NextSales]_vars

(* SpecYearly: the page load over sales tables of many years.              *)

YearPool ==
    { [ParcelNumber |-> 1, SaleDate |-> DateText("slash", y, 6, 15), SaleAmount |-> Num(a)] :
        y \in {1999, 2000, 2020, 2023, 2024, 2025}, a \in {200000, 450000} }

InitYearly ==
    \E s \in SeqsUpTo(YearPool, MaxYearly) :
        InitWith(Files(FileNames, s, DefaultAssessments, DefaultParcels, TRUE), "insertion")

NextYearly == PageLoad \/ Refresh

SpecYearly == InitYearly /\ [][NextYearly]_vars

(* SpecTopTen: the page load over parcel tables of eleven owners.          *)

Letter(i) == <<UpperCase[i]>>

\* ten owners, A to J, of one small parcel each
TenOwners ==
    [i \in 1..10 |-> Parcel(Letter(i), Text(FALSE, LocalToken), 1000, 100000)]

ExtraPool ==
    { Parcel(Letter(11), Text(FALSE, LocalToken), 43560, 500000),
      Parcel(Letter(11), Text(FALSE, LocalToken), 1000, 100000),
      Parcel(Letter(1), Text(FALSE, LocalToken), 43560, 500000),
      Parcel(Letter(1), Text(FALSE, LocalToken), 1000, 100000),
      Parcel(Letter(5), Text(FALSE, LocalToken), 43560, 100000),
      Parcel(Letter(12), Text(FALSE, LocalToken), 1000, 500000) }

InitTopTen ==
    \E x \in SeqsUpTo(ExtraPool, MaxExtra) : \E b \in Builds :
        \/ InitWith(Files(FileNames, DefaultSales, DefaultAssessments, TenOwners \o x, TRUE), b)
        \/ InitWith(Files(FileNames, DefaultSales, DefaultAssessments, x \o TenOwners, TRUE), b)

NextTopTen == PageLoad \/ Refresh

SpecTopTen == InitTopTen /\ [][NextTopTen]_vars

(* SpecReload: the page loaded again and again while the files on disk are *)
(* put in place and replaced.                                              *)

ReloadPool ==
    { [ParcelNumber |-> 1, SaleDate |-> DateText("slash", 2020, 2, 29), SaleAmount |-> Num(200000)],
      [ParcelNumber |-> 2, SaleDate |-> DateText("slash", 2024, 11, 30), SaleAmount |-> Num(450000)] }

InitReload ==
    \E r \in SUBSET FileNames :
        InitWith(Files(r, DefaultSales, DefaultAssessments, DefaultParcels, TRUE), "insertion")

NextReload ==
    \/ PageLoad
    \/ Refresh
    \/ \E name \in FileNames : RestoreFile(name)
    \/ \E s \in SeqsUpTo(ReloadPool, MaxSales) : ReplaceSales(s)

SpecReload == InitReload /\ [][NextReload]_vars

(* SpecOwners: the page load over every parcel table, with and without the *)
(* Assessment column, on either numpy build.                               *)

InitOwners ==
    \/ \E p \in SeqsUpTo(AddressPool, MaxParcels) :
         InitWith(Files(FileNames, DefaultSales, DefaultAssessments, p, TRUE), "insertion")
    \/ \E p \in SeqsUpTo(OwnerPool, MaxOwned) : \E b \in Builds :
         InitWith(Files(FileNames, DefaultSales, DefaultAssessments, p, TRUE), b)
    \/ \E p \in SeqsUpTo(OwnerPool, MaxOwned) :
         InitWith(Files(FileNames, DefaultSales, DefaultAssessments, p, FALSE), "insertion")

NextOwners == PageLoad \/ Refresh

SpecOwners == InitOwners /\ [][NextOwners]_vars

-----------------------------------------------------------------------------
(* Properties.                                                             *)

LiteralContains(q, text) ==
    \E i \in 0..(Len(text) - Len(q)) :
        \A k \in 1..Len(q) : UpperChar(q[k]) = UpperChar(text[i + k])

HistoryLacks2021 == \A i \in 1..Len(out.search.property_history) :
                        out.search.property_history[i].TaxYear # 2021

\* C1: when the history of the selected parcel has no 2021 record, the change
\* since 2021 is an explicit undefined value: the run raises nothing and reports
\* no number.
C1_UndefinedChangeWithout2021 ==
    (out.ran /\ out.search.looked_up /\ HistoryLacks2021)
        => /\ out.exception = "none"
           /\ out.search.total_change.nan
           /\ out.search.pct_change.nan

\* C2: no match gives the empty state; one distinct (parcel, address) result is
\* selected automatically; with two or more, no history is looked up until the
\* user has made a selection.
C2_LookupWaitsForSelection ==
    out.search.ran =>
        /\ (out.search.n_matching = 0 => ~out.search.looked_up)
        /\ (Len(out.search.unique_addresses) = 1 =>
               /\ out.search.looked_up
               /\ out.search.selected_parcel = out.search.unique_addresses[1].ParcelNumber)
        /\ (Len(out.search.unique_addresses) >= 2 /\ ~explicit => ~out.search.looked_up)

NothingRendered ==
    /\ ~out.loaded
    /\ ~out.overview.rendered /\ ~out.yearly.rendered /\ ~out.assessment.rendered
    /\ ~out.activity.rendered /\ ~out.search_input /\ ~out.search.ran
    /\ ~out.ownership.rendered /\ ~out.owners.rendered /\ ~out.summary

\* C3: when one of the three files cannot be read the run renders no aggregate,
\* chart or search, and shows exactly one error message.
C3_OneDataUnavailableMessage ==
    (out.ran /\ ~(FileNames \subseteq files.readable))
        => (NothingRendered /\ Len(out.errors) = 1)

RecentSales == SelectSeq(out.sales_processed, LAMBDA r : r.Year >= 2020)

\* C4: with no sale since 2020 the affordability percentage is an explicit
\* undefined value, not a number.
C4_UndefinedAffordablePct ==
    (out.overview.rendered /\ Len(RecentSales) = 0)
        => out.overview.affordable_pct.nan

NoSaleIn(y) == \A i \in 1..Len(out.sales_processed) : out.sales_processed[i].Year # y

AssessedIn2021 ==
    {out.assessment.assessment_stats[i].MedianAssessment :
        i \in {j \in 1..Len(out.assessment.assessment_stats) :
                 out.assessment.assessment_stats[j].Year = 2021}}

\* C5: each ratio against a baseline year is undefined, never 0, when the
\* baseline year has no record or its value is zero: the price increase since
\* 2000 and since 2020, the sales-count change since 2021, the assessment
\* increase since 2021.
C5_UndefinedRatioWithoutBaseline ==
    /\ (out.yearly.rendered /\ NoSaleIn(2000)) => out.yearly.total_increase.nan
    /\ (out.yearly.rendered /\ NoSaleIn(2020)) => out.yearly.recent_increase.nan
    /\ (out.activity.rendered /\ NoSaleIn(2021)) => out.activity.sales_change.nan
    /\ (out.assessment.rendered /\ (AssessedIn2021 \subseteq {Num(0)}))
           => out.assessment.assessment_increase.nan

\* the dates of SaleDates that are dates written as YYYY/MM/DD HH:MM:SS+00
WellFormedDates ==
    { DateText("slash", 1999, 12, 31), DateText("slash", 2000, 6, 15),
      DateText("slash", 2020, 2, 29),  DateText("slash", 2021, 7, 1),
      DateText("slash", 2024, 11, 30) }

\* the amounts of SaleAmounts above 10,000
MarketAmounts == { Num(10001), Num(200000), Num(450000) }

Qualifies(row) == row.SaleDate \in WellFormedDates /\ row.SaleAmount \in MarketAmounts

KeptParcels == {i \in 1..Len(files.parcel_boundary_details) :
                  ~files.parcel_boundary_details[i].OwnerCityState.null}

Owned(name) == {i \in KeptParcels : files.parcel_boundary_details[i].OwnerName = name}

FirstSeen(name) == CHOOSE i \in Owned(name) : \A j \in Owned(name) : i <= j

Ranking == out.owners.top_owners

CountDescending ==
    \A i, j \in 1..Len(Ranking) :
        i < j => Ranking[i].TotalProperties >= Ranking[j].TotalProperties

EveryOwnerOnce ==
    /\ {Ranking[i].OwnerName : i \in 1..Len(Ranking)}
           = {files.parcel_boundary_details[i].OwnerName : i \in KeptParcels}
    /\ \A i, j \in 1..Len(Ranking) : Ranking[i].OwnerName = Ranking[j].OwnerName => i = j
    /\ \A i \in 1..Len(Ranking) :
           Ranking[i].TotalProperties = Cardinality(Owned(Ranking[i].OwnerName))

\* C7 as stated: the ranking is by property count descending, and owners with
\* equal counts are in the order the parcel table first names them.
C7_TiesInEncounterOrder ==
    out.owners.rendered =>
        /\ CountDescending
        /\ \A i, j \in 1..Len(Ranking) :
              (i < j /\ Ranking[i].TotalProperties = Ranking[j].TotalProperties)
                  => FirstSeen(Ranking[i].OwnerName) < FirstSeen(Ranking[j].OwnerName)

\* C7 as amended: the ranking names every owner once, with the count of the
\* owner's parcels, by property count descending, and another run over the same
\* parcels gives the same ranking.
C7_RankedByCountDescending ==
    /\ [](out.owners.rendered => (CountDescending /\ EveryOwnerOnce))
    /\ [][(out.owners.rendered /\ out'.owners.rendered)
             => out'.owners.top_owners = out.owners.top_owners]_vars

\* two owners of two parcels each are ranked before an owner of one parcel whom
\* the table names first
C7_Witness ==
    /\ out.owners.rendered
    /\ Len(Ranking) = 3
    /\ Ranking[1].TotalProperties = 2
    /\ Ranking[2].TotalProperties = 2
    /\ Ranking[3].TotalProperties = 1
    /\ FirstSeen(Ranking[3].OwnerName) = 1

\* C8: without the Assessment column the owner analysis still delivers the
\* ranking, every total assessed value 0, and reports no error.
C8_RankingWithoutAssessmentColumn ==
    (out.owners.rendered /\ ~files.has_assessment)
        => /\ out.owners.delivered
           /\ out.owners.caught = "none"
           /\ out.errors = <<>>
           /\ \A i \in 1..Len(Ranking) : Ranking[i].TotalAssessment = 0

LowerOf(c) ==
    IF \E i \in 1..26 : UpperCase[i] = c
    THEN LowerCase[CHOOSE i \in 1..26 : UpperCase[i] = c]
    ELSE c

\* s is the 18 characters of CHARLOTTESVILLE VA, each in either case, between
\* whitespace only
SpellsLocal(s) ==
    \E lo \in 1..Len(s) :
        /\ lo + 17 <= Len(s)
        /\ \A k \in 1..(lo - 1) : s[k] \in Whitespace
        /\ \A k \in (lo + 18)..Len(s) : s[k] \in Whitespace
        /\ \A k \in 1..18 : s[lo + k - 1] \in {LocalToken[k], LowerOf(LocalToken[k])}

LocalParcels == {i \in KeptParcels : SpellsLocal(files.parcel_boundary_details[i].OwnerCityState.s)}

Area(S) == LotSum([i \in 1..Cardinality(S) |->
                     files.parcel_boundary_details[SetToSeq(S)[i]]])

\* C9: a parcel counts as local if and only if its owner city and state,
\* trimmed and upper-cased, is CHARLOTTESVILLE VA; a parcel without an owner
\* city and state is in no count and in no land area.
C9_LocalIffCanonicalSpelling ==
    out.ownership.rendered =>
        /\ out.ownership.total_parcels = Cardinality(KeptParcels)
        /\ out.ownership.local_parcels = Cardinality(LocalParcels)
        /\ out.ownership.non_local_parcels = Cardinality(KeptParcels \ LocalParcels)
        /\ out.ownership.total_land_area = Area(KeptParcels)
        /\ out.ownership.local_land_area = Area(LocalParcels)
        /\ out.ownership.non_local_land_area = Area(KeptParcels \ LocalParcels)

\* a lower-case spelling with a trailing space is counted local, next to a
\* parcel without owner city and state and one of another city
C9_Witness ==
    /\ out.ownership.rendered
    /\ Len(files.parcel_boundary_details) = 3
    /\ files.parcel_boundary_details[1].OwnerCityState.null
    /\ files.parcel_boundary_details[2].OwnerCityState.s # LocalToken
    /\ 2 \in LocalParcels
    /\ 3 \in KeptParcels \ LocalParcels
    /\ out.ownership.total_parcels = 2
    /\ out.ownership.local_parcels = 1

Matched == {out.search.matching[i].idx : i \in 1..Len(out.search.matching)}

\* C10: a record matches if and only if the query, as a literal string without
\* regard to case, is a substring of its full address or of its street name;
\* no query makes the search raise.
C10_LiteralSubstringMatch ==
    (out.ran /\ out.search_input /\ widgets.search_address # <<>>) =>
        /\ out.search.raised # "re.error"
        /\ \A i \in 1..Len(files.all_assessments) :
              files.all_assessments[i].idx \in Matched
                  <=> \/ LiteralContains(widgets.search_address,
                                         FullAddress(files.all_assessments[i]))
                      \/ LiteralContains(widgets.search_address,
                                         files.all_assessments[i].StreetName)

OnDiskMarketSale(row) ==
    /\ row.SaleDate \in WellFormedDates
    /\ ~row.SaleAmount.nan
    /\ row.SaleAmount.n > 10000 * row.SaleAmount.d

\* C11: a run of the script after the files on disk were put in place or
\* replaced shows what the files hold at the time of the run: it loads if and
\* only if the three files are readable, and its normalized sales are those of
\* the sales file as it is, not of an earlier load.
C11_RunReflectsFilesOnDisk ==
    (out.ran /\ up_to_date) =>
        /\ out.loaded <=> (FileNames \subseteq files.readable)
        /\ out.loaded =>
              {out.sales_processed[j].idx : j \in 1..Len(out.sales_processed)}
                  = {files.sales[i].idx : i \in {k \in 1..Len(files.sales) :
                                                     OnDiskMarketSale(files.sales[k])}}
        /\ out.loaded =>
              \A j \in 1..Len(out.sales_processed) :
                  /\ out.sales_processed[j].idx < Len(files.sales)
                  /\ out.sales_processed[j].SaleAmount
                        = files.sales[out.sales_processed[j].idx + 1].SaleAmount
                  /\ out.sales_processed[j].Year
                        = files.sales[out.sales_processed[j].idx + 1].SaleDate.Y

NoSaleSince2000 ==
    \A i \in 1..Len(out.sales_processed) : out.sales_processed[i].Year < 2000

NoAssessmentSince2000 ==
    \A i \in 1..Len(files.all_assessments) : files.all_assessments[i].TaxYear < 2000

\* C12: when the three tables load and no sale, or no assessment record, has a
\* year of 2000 or later, the run raises no unhandled exception and reaches the
\* end of the page.
C12_EmptyAggregateCompletes ==
    (out.ran /\ out.loaded /\ (NoSaleSince2000 \/ NoAssessmentSince2000))
        => (out.exception = "none" /\ out.summary)

\* the rows of the sales file, by position, that are market sales of a year in
\* Y (every date of YearPool is a date of the calendar)
SoldIn(Y) ==
    {i \in 1..Len(files.sales) :
        /\ files.sales[i].SaleDate.layout = "slash"
        /\ files.sales[i].SaleDate.Y \in Y
        /\ ~files.sales[i].SaleAmount.nan
        /\ files.sales[i].SaleAmount.n > 10000 * files.sales[i].SaleAmount.d}

Paid(i) == files.sales[i].SaleAmount.n

\* v is the k-th smallest amount of the sales S
IsKthOf(v, k, S) ==
    /\ Cardinality({i \in S : Paid(i) < v}) < k
    /\ k <= Cardinality({i \in S : Paid(i) <= v})

\* m is the median of the amounts of the sales S: undefined for no sale, else
\* the mean of the two central amounts (the same amount when S is odd)
IsMedianOf(m, S) ==
    IF S = {} THEN m.nan
    ELSE \E lo, hi \in {Paid(i) : i \in S} :
            /\ IsKthOf(lo, (Cardinality(S) + 1) \div 2, S)
            /\ IsKthOf(hi, Cardinality(S) \div 2 + 1, S)
            /\ ~m.nan
            /\ 2 * m.n = (lo + hi) * m.d

YearsFrom(y) == y..2025

YearlyRows == out.yearly.yearly_stats

\* the incomes of the years of YearPool that income_by_year maps to a number
KnownIncome == {<<2000, 32903>>, <<2020, 59598>>, <<2023, 69829>>}

\* C13: in the yearly statistics the affordable price of a year is three times
\* the income of the year when the income table maps the year to a number, and
\* is absent, never 0, when it does not, as for 2024.
C13_AffordablePricePerYear ==
    out.yearly.rendered =>
        \A r \in 1..Len(YearlyRows) :
            /\ \A p \in KnownIncome :
                   YearlyRows[r].Year = p[1] =>
                       /\ ~YearlyRows[r].AffordablePrice.nan
                       /\ YearlyRows[r].AffordablePrice.n = 3 * p[2]
                       /\ YearlyRows[r].AffordablePrice.d = 1
            /\ YearlyRows[r].Year \in {2024, 2025} => YearlyRows[r].AffordablePrice.nan
            /\ YearlyRows[r].AffordablePrice # Num(0)

\* sales in 2023 and in 2024: 209,487 for 2023 and no affordable price for 2024
C13_Witness ==
    /\ out.yearly.rendered
    /\ Len(YearlyRows) = 2
    /\ YearlyRows[1].Year = 2023
    /\ YearlyRows[1].AffordablePrice = Num(209487)
    /\ YearlyRows[2].Year = 2024
    /\ YearlyRows[2].AffordablePrice.nan

\* the median price the gap shown stands for: the gap plus 209,487
GapPrice ==
    [nan |-> out.overview.affordability_gap.nan,
     n   |-> out.overview.affordability_gap.n + 209487 * out.overview.affordability_gap.d,
     d   |-> out.overview.affordability_gap.d]

C15_OneRowPerYearWithSales ==
    out.yearly.rendered =>
        /\ {YearlyRows[r].Year : r \in 1..Len(YearlyRows)}
               = {y \in YearsFrom(2000) : SoldIn({y}) # {}}
        /\ \A r \in 1..Len(YearlyRows) :
               /\ YearlyRows[r].Sales = Cardinality(SoldIn({YearlyRows[r].Year}))
               /\ YearlyRows[r].Sales >= 1
               /\ IsMedianOf(YearlyRows[r].MedianPrice, SoldIn({YearlyRows[r].Year}))
        /\ \A q, r \in 1..Len(YearlyRows) : q < r => YearlyRows[q].Year < YearlyRows[r].Year

\* sales of 2024, 1999 and 2000, in that order in the file: rows 2000 and 2024
C15_Witness ==
    /\ out.yearly.rendered
    /\ Len(files.sales) = 3
    /\ files.sales[1].SaleDate.Y = 2024
    /\ files.sales[2].SaleDate.Y = 1999
    /\ files.sales[3].SaleDate.Y = 2000
    /\ Len(YearlyRows) = 2
    /\ YearlyRows[1].Year = 2000
    /\ YearlyRows[2].Year = 2024

\* C16: at the end of every run the three loaded tables have the columns the
\* files have, each as read from its file: none has gained FullAddress, Year,
\* Month or IsLocal, and none has a column that was written over.
C16_LoadedTablesUnchanged ==
    out.loaded =>
        /\ out.tables.sales
              = [c \in {"ParcelNumber", "SaleDate", "SaleAmount"} |-> "csv"]
        /\ out.tables.all_assessments
              = [c \in {"ParcelNumber", "TaxYear", "TotalValue", "StreetNumber", "StreetName"}
                   |-> "csv"]
        /\ out.tables.parcel_boundary_details
              = [c \in {"OwnerName", "OwnerCityState", "LotSquareFeet", "Assessment"} |-> "csv"]

\* a first run that normalized the sales, searched an address, looked up a
\* history and analysed the ownership
C16_Witness ==
    /\ out.loaded
    /\ out.search.looked_up
    /\ out.ownership.rendered
    /\ out.summary
    /\ out.tables.sales = [c \in {"ParcelNumber", "SaleDate", "SaleAmount"} |-> "csv"]

History == out.search.property_history

\* C17: the history looked up for the selected parcel holds every record of the
\* assessment table with that parcel identifier, each once and as it is in the
\* table, no record of another parcel, in ascending order of the tax year.
C17_HistoryOfSelectedParcel ==
    out.search.looked_up =>
        /\ {History[k].idx : k \in 1..Len(History)}
              = {files.all_assessments[i].idx :
                   i \in {j \in 1..Len(files.all_assessments) :
                            files.all_assessments[j].ParcelNumber = out.search.selected_parcel}}
        /\ \A k \in 1..Len(History) : History[k] = files.all_assessments[History[k].idx + 1]
        /\ \A k, l \in 1..Len(History) :
               k < l => /\ History[k].idx # History[l].idx
                        /\ History[k].TaxYear <= History[l].TaxYear

\* the table has the 2024 record of the parcel before its 2021 record, with a
\* record of another parcel: the history is 2021, 2024
C17_Witness ==
    /\ out.search.looked_up
    /\ Len(files.all_assessments) = 3
    /\ \E i \in 1..3 : files.all_assessments[i].ParcelNumber # out.search.selected_parcel
    /\ Len(History) = 2
    /\ History[1].TaxYear = 2021
    /\ History[2].TaxYear = 2024
    /\ History[1].idx > History[2].idx

\* C18: when the search shows several (parcel, full address) results, the
\* history looked up is that of the parcel of the result at the position the
\* selectbox is at, also when two parcels have the same full address.
C18_HistoryOfChosenResult ==
    (out.search.looked_up /\ out.search.selectbox.shown) =>
        out.search.selected_parcel
            = out.search.unique_addresses[out.search.selectbox.index].ParcelNumber

Shown(chart) == {chart[i].OwnerName : i \in 1..Len(chart)}

\* the owners of chart are those with the largest key among the owners of the
\* ranking: ten of them, or all when there are fewer, and no owner left out has
\* a larger key than one shown
LargestBy(chart, key) ==
    /\ Len(chart) = (IF Len(Ranking) < 10 THEN Len(Ranking) ELSE 10)
    /\ Cardinality(Shown(chart)) = Len(chart)
    /\ \A i \in 1..Len(chart) : \E j \in 1..Len(Ranking) : Ranking[j] = chart[i]
    /\ \A i \in 1..Len(chart) : \A j \in 1..Len(Ranking) :
           Ranking[j].OwnerName \notin Shown(chart) => chart[i][key] >= Ranking[j][key]

\* C19: the owners charted as top ten by total land area are the ten owners of
\* the largest total land area among all owners, and those charted by total
\* assessment value are the ten of the largest total assessed value.
C19_TopTenByAreaAndByValue ==
    (out.owners.rendered /\ out.owners.caught = "none") =>
        /\ LargestBy(out.owners.fig_top_acres, "TotalSquareFeet")
        /\ LargestBy(out.owners.assessment_data, "TotalAssessment")

\* the median price of the sales of the year y, from the sales file
MedianPriceOf(y) ==
    CHOOSE m \in {NaN} \cup {[nan |-> FALSE, n |-> a + b, d |-> 2] :
                                a, b \in {Paid(i) : i \in SoldIn({y})}} :
        IsMedianOf(m, SoldIn({y}))

\* C20: the percentage shown with the 2024 median price as its change 'vs 2020'
\* is (median of the 2024 sales - median of the 2020 sales) / median of the
\* 2020 sales x 100.
C20_HeadlineIncreaseSince2020 ==
    (out.overview.rendered /\ SoldIn({2020}) # {} /\ SoldIn({2024}) # {}) =>
        /\ ~out.overview.price_increase_pct.nan
        /\ out.overview.price_increase_pct.n * MedianPriceOf(2020).n * MedianPriceOf(2024).d
              = 100 * out.overview.price_increase_pct.d
                    * (MedianPriceOf(2024).n * MedianPriceOf(2020).d
                         - MedianPriceOf(2020).n * MedianPriceOf(2024).d)

\* p and q are percentages that add up to 100
AddUpTo100(p, q) ==
    /\ ~p.nan /\ ~q.nan
    /\ p.n * q.d + q.n * p.d = 100 * p.d * q.d

\* C21: the local and the non-local count add up to the number of parcels that
\* have an owner city and state, the local and the non-local land area add up to
\* the total land area of those parcels, and each non-local percentage shown is
\* 100 minus the local percentage.
C21_OwnershipTotalsPartition ==
    out.ownership.rendered =>
        /\ out.ownership.total_parcels = Cardinality(KeptParcels)
        /\ out.ownership.local_parcels + out.ownership.non_local_parcels
              = out.ownership.total_parcels
        /\ out.ownership.total_land_area = Area(KeptParcels)
        /\ out.ownership.local_land_area + out.ownership.non_local_land_area
              = out.ownership.total_land_area
        /\ AddUpTo100(out.ownership.local_pct, out.ownership.non_local_pct)
        /\ AddUpTo100(out.ownership.local_land_pct, out.ownership.non_local_land_pct)

\* a parcel without owner city and state, a local one whose city is spelled
\* with a leading space, and one of another city
C21_Witness ==
    /\ out.ownership.rendered
    /\ Len(files.parcel_boundary_details) = 3
    /\ \E i \in 1..3 : files.parcel_boundary_details[i].OwnerCityState.null
    /\ \E i \in 1..3 : /\ i \in LocalParcels
                        /\ Head(files.parcel_boundary_details[i].OwnerCityState.s) = " "
    /\ out.ownership.total_parcels = 2
    /\ out.ownership.local_parcels = 1
    /\ out.ownership.non_local_parcels = 1
    /\ out.ownership.non_local_pct = Num(50)

====
